---- MODULE Spec2Model ----
(***************************************************************************)
(* A model of src/bot.py: the per-user Profile kept in data/<uid>.json,    *)
(* the command handlers that load, change and save it, and the periodic    *)
(* auto_tick job of the JobQueue.                                          *)
(*                                                                         *)
(* Units.  Money is counted in cents (50.00 is 5000), probabilities in     *)
(* thousandths (0.7 is 700), time in 1/Sec of a second, so that the        *)
(* truncation int(...) of ensure_cooldown acts on a fraction of a second.  *)
(* An optional value (Python's None) is a sequence of length 0 or 1.       *)
(* One user in a private chat is modelled: chat_id = uid (bot.py:243).     *)
(***************************************************************************)
EXTENDS Integers, Sequences, FiniteSets, TLC

VARIABLES
    disk,    \* data/<uid>.json: <<>> when the file does not exist, else <<Profile>>
    clock,   \* time.time(), in 1/Sec seconds
    jobs,    \* number of jobs named auto-<chat_id> in the JobQueue
    tick,    \* the auto_tick suspended in send_message before its save: <<>> or <<Profile>>
    reply    \* the last message sent to the chat

vars == <<disk, clock, jobs, tick, reply>>

----------------------------------------------------------------------------
(* Bounds of the model *)

\* clock units per second
Sec == 2
\* at most MaxBets wagers are placed: those with a result (lifetime_bets)
\* and those of the session that wait for one
MaxBets == 2

\* The clock at the start: far enough from the epoch (last_bet_ts defaults to
\* 0.0) for no modelled cooldown to reach back to it.
T0 == 10 * 60 * Sec

----------------------------------------------------------------------------
(* Persistence: Bet, Profile, load and save *)

MARKETS == {"dragon", "tiger", "tie"}

None == <<>>
Some(x) == <<x>>

\* Bet(stake=..., market=...): ts defaults to time.time(), outcome and pnl to None
Bet(t, stake, market) ==
    [ts |-> t, stake |-> stake, market |-> market, outcome |-> None, pnl |-> None]

\* Profile(): the defaults of the model's fields
Profile(t) ==
    [bankroll          |-> 0,
     session_start     |-> t,
     stop_loss         |-> 0,
     stop_win          |-> 0,
     cooldown_min      |-> 0,
     last_bet_ts       |-> 0,
     bets              |-> <<>>,
     lifetime_bets     |-> 0,
     lifetime_pnl      |-> 0,
     probs             |-> [m \in MARKETS |-> IF m = "tie" THEN 80 ELSE 500],
     auto_enabled      |-> FALSE,
     auto_interval_min |-> 15]

\* Profile.load(uid): the saved Profile, or a fresh one when there is no file
Load(d, t) == IF d = None THEN Profile(t) ELSE d[1]

\* p.save(uid)
Save(p) == Some(p)

----------------------------------------------------------------------------
(* Helpers *)

RECURSIVE SumPnl(_)
SumPnl(bets) ==
    IF bets = <<>> THEN 0
    ELSE (IF Head(bets).pnl = None THEN 0 ELSE Head(bets).pnl[1]) + SumPnl(Tail(bets))

\* the profit/loss of every wager ever closed instead of the session's
session_pnl_Lifetime(p) == p.lifetime_pnl

\* sum(b.pnl for b in p.bets if b.pnl is not None)
session_pnl(p) == SumPnl(p.bets)

\* Python's int(x) of x = n / Sec: truncation towards zero
IntSeconds(n) == IF n >= 0 THEN n \div Sec ELSE -((-n) \div Sec)

\* ensure_cooldown(p): the remaining whole seconds, or None
ensure_cooldown(p, t) ==
    IF p.cooldown_min <= 0 THEN None
    ELSE LET rem == IntSeconds(p.last_bet_ts + p.cooldown_min * 60 * Sec - t)
         IN  IF rem > 0 THEN Some(rem) ELSE None

Min(a, b) == IF a <= b THEN a ELSE b
Max(a, b) == IF a >= b THEN a ELSE b
Abs(a) == IF a >= 0 THEN a ELSE -a

\* kelly_fraction(p, b=1.0) in thousandths: q = 1 - p, f = (b*p - q) / b
kelly_fraction(p) ==
    LET q == 1000 - p
        f == p - q
    IN  Max(0, Min(1000, f))

\* a / b (b > 0) rounded to the nearest integer, ties to even: the rounding
\* of round(x, 2) and of the format {x:.1f} on the exact value
RoundDiv(a, b) ==
    LET lo == a \div b
        r  == a % b
    IN  IF 2 * r < b THEN lo
        ELSE IF 2 * r > b THEN lo + 1
        ELSE IF lo % 2 = 0 THEN lo ELSE lo + 1

\* round(x, 2) of x = n / 1000 cents, in whole cents
Round2(n) == RoundDiv(n, 1000)

\* the last of the greatest instead of the first
BestMarket_Last(p) == IF p.probs["tiger"] >= p.probs["dragon"] THEN "tiger" ELSE "dragon"

\* max([(m, p.probs.get(m, 0.5)) for m in ("dragon", "tiger")], key=prob):
\* the first of the greatest
BestMarket(p) == IF p.probs["tiger"] > p.probs["dragon"] THEN "tiger" ELSE "dragon"

\* advisor_suggestion without its test of prob <= 0.5 or f <= 0
advisor_suggestion_NoGuard(p) ==
    LET m_best == BestMarket(p)
        prob   == p.probs[m_best]
        f      == kelly_fraction(prob)
    IN  [kind |-> "Stake", market |-> m_best, prob |-> prob,
         stake |-> Max(100, Round2(p.bankroll * f))]

\* advisor_suggestion(p)
advisor_suggestion(p) ==
    LET m_best == BestMarket(p)
        prob   == p.probs[m_best]
        f      == kelly_fraction(prob)
    IN  IF prob <= 500 \/ f <= 0
        THEN [kind |-> "NoEdge"]
        ELSE [kind |-> "Stake", market |-> m_best, prob |-> prob,
              stake |-> Max(100, Round2(p.bankroll * f))]

----------------------------------------------------------------------------
(* Decisions of the handlers, as functions of the loaded Profile and the clock *)

\* suggest with the cooldown examined before the limits
SuggestDecision_CooldownFirst(p, t) ==
    LET rem   == ensure_cooldown(p, t)
        pnl_s == session_pnl(p)
    IN  IF rem # None
        THEN [op |-> "suggest", kind |-> "CooldownActive", rem |-> rem[1]]
        ELSE IF p.stop_loss # 0 /\ pnl_s <= -Abs(p.stop_loss)
        THEN [op |-> "suggest", kind |-> "StopLossHit"]
        ELSE IF p.stop_win # 0 /\ pnl_s >= Abs(p.stop_win)
        THEN [op |-> "suggest", kind |-> "StopWinHit"]
        ELSE [op |-> "suggest", kind |-> "Suggestion", text |-> advisor_suggestion(p)]

\* suggest with the limits compared strictly
SuggestDecision_Strict(p, t) ==
    LET rem   == ensure_cooldown(p, t)
        pnl_s == session_pnl(p)
    IN  IF p.stop_loss # 0 /\ pnl_s < -Abs(p.stop_loss)
        THEN [op |-> "suggest", kind |-> "StopLossHit"]
        ELSE IF p.stop_win # 0 /\ pnl_s > Abs(p.stop_win)
        THEN [op |-> "suggest", kind |-> "StopWinHit"]
        ELSE IF rem # None
        THEN [op |-> "suggest", kind |-> "CooldownActive", rem |-> rem[1]]
        ELSE [op |-> "suggest", kind |-> "Suggestion", text |-> advisor_suggestion(p)]

\* suggest, lines 163-173: the message chosen
SuggestDecision(p, t) ==
    LET rem   == ensure_cooldown(p, t)
        pnl_s == session_pnl(p)
    IN  IF p.stop_loss # 0 /\ pnl_s <= -Abs(p.stop_loss)
        THEN [op |-> "suggest", kind |-> "StopLossHit"]
        ELSE IF p.stop_win # 0 /\ pnl_s >= Abs(p.stop_win)
        THEN [op |-> "suggest", kind |-> "StopWinHit"]
        ELSE IF rem # None
        THEN [op |-> "suggest", kind |-> "CooldownActive", rem |-> rem[1]]
        ELSE [op |-> "suggest", kind |-> "Suggestion", text |-> advisor_suggestion(p)]

\* auto_tick returning on a cooldown before it looks at the limits
TickDecision_CooldownFirst(p, t) ==
    LET rem   == ensure_cooldown(p, t)
        pnl_s == session_pnl(p)
    IN  IF rem # None
        THEN [op |-> "auto_tick", kind |-> "Silent"]
        ELSE IF p.stop_loss # 0 /\ pnl_s <= -Abs(p.stop_loss)
        THEN [op |-> "auto_tick", kind |-> "StopLossHit"]
        ELSE IF p.stop_win # 0 /\ pnl_s >= Abs(p.stop_win)
        THEN [op |-> "auto_tick", kind |-> "StopWinHit"]
        ELSE [op |-> "auto_tick", kind |-> "Suggestion", text |-> advisor_suggestion(p)]

\* auto_tick, lines 245-255: the message chosen, "Silent" when it returns
\* without sending
TickDecision(p, t) ==
    LET rem   == ensure_cooldown(p, t)
        pnl_s == session_pnl(p)
    IN  IF p.stop_loss # 0 /\ pnl_s <= -Abs(p.stop_loss)
        THEN [op |-> "auto_tick", kind |-> "StopLossHit"]
        ELSE IF p.stop_win # 0 /\ pnl_s >= Abs(p.stop_win)
        THEN [op |-> "auto_tick", kind |-> "StopWinHit"]
        ELSE IF rem # None
        THEN [op |-> "auto_tick", kind |-> "Silent"]
        ELSE [op |-> "auto_tick", kind |-> "Suggestion", text |-> advisor_suggestion(p)]

\* bet accepting a stake of zero
BetValid_ZeroStake(stake, market) == stake >= 0 /\ market \in MARKETS

\* bet, line 182: assert stake > 0 and market in MARKETS
BetValid(stake, market) == stake > 0 /\ market \in MARKETS

\* bet without its cooldown check
BetGate_Off(p, t) == None

\* bet refusing the wager also when a stop limit is reached
BetGate_Limits(p, t) ==
    IF \/ p.stop_loss # 0 /\ session_pnl(p) <= -Abs(p.stop_loss)
       \/ p.stop_win # 0 /\ session_pnl(p) >= Abs(p.stop_win)
    THEN Some(Max(0, IntSeconds(p.last_bet_ts + p.cooldown_min * 60 * Sec - t)))
    ELSE ensure_cooldown(p, t)

\* bet, lines 186-187: the cooldown that blocks the wager, or None
BetGate(p, t) == ensure_cooldown(p, t)

\* result_cmd searching p.bets from the front
OpenBet_First(bets) ==
    LET open == {i \in 1..Len(bets) : bets[i].outcome = None}
    IN  IF open = {} THEN 0 ELSE CHOOSE i \in open : \A j \in open : i <= j

\* result_cmd, line 203: next((b for b in reversed(p.bets) if b.outcome is None), None)
\* as an index of p.bets, 0 when there is none
OpenBet(bets) ==
    LET open == {i \in 1..Len(bets) : bets[i].outcome = None}
    IN  IF open = {} THEN 0 ELSE CHOOSE i \in open : \A j \in open : j <= i

\* result_cmd, lines 208-210
PnlOf(outcome, stake) ==
    IF outcome = "win" THEN stake
    ELSE IF outcome = "lose" THEN -stake
    ELSE 0

\* result_cmd, lines 207-211: the Profile with its open wager closed
CloseWager(p, outcome) ==
    LET i   == OpenBet(p.bets)
        pnl == PnlOf(outcome, p.bets[i].stake)
    IN  [p EXCEPT !.bets[i].outcome = Some(outcome),
                  !.bets[i].pnl = Some(pnl),
                  !.lifetime_bets = @ + 1,
                  !.lifetime_pnl = @ + pnl,
                  !.bankroll = @ + pnl]

----------------------------------------------------------------------------
(* The state after start-up: no file, no job, nothing sent *)

Init ==
    /\ disk = None
    /\ clock = T0
    /\ jobs = 0
    /\ tick = None
    /\ reply = [op |-> "none", kind |-> "none"]

\* The answer to arguments that fail validation.  The texts differ from one
\* handler to the next ("Uso: ...", "Valores invalidos.", ...); the model keeps
\* their class.
Rejected == [op |-> "rejected", kind |-> "ValidationError"]

\* a handler that answers without saving
Answer(r) == reply' = r /\ UNCHANGED <<disk, clock, jobs, tick>>

\* a handler that saves the Profile q, then answers
Commit(q, r) == disk' = Save(q) /\ reply' = r /\ UNCHANGED <<clock, jobs, tick>>

\* what every handler loads first
Loaded == Load(disk, clock)

----------------------------------------------------------------------------
(* Handlers.  args is context.args after parsing: numbers and words.       *)

\* /start
start ==
    Commit(Loaded, [op |-> "start", kind |-> "Ok"])

\* /setbankroll <valor>
setbankroll(args) ==
    LET p == Loaded
    IN  IF Len(args) = 0 \/ ~(args[1] > 0)
        THEN Answer(Rejected)
        ELSE Commit([p EXCEPT !.bankroll = args[1]],
                    [op |-> "setbankroll", kind |-> "Ok", v |-> args[1]])

\* /setlimits <stop_loss> <stop_win>
setlimits(args) ==
    LET p == Loaded
    IN  IF Len(args) # 2
        THEN Answer(Rejected)
        ELSE IF ~(args[1] >= 0 /\ args[2] >= 0)
        THEN Answer(Rejected)
        ELSE Commit([p EXCEPT !.stop_loss = args[1], !.stop_win = args[2]],
                    [op |-> "setlimits", kind |-> "Ok", sl |-> args[1], sw |-> args[2]])

\* /cooldown [<min>]
cooldown(args) ==
    LET p == Loaded
    IN  IF Len(args) = 0
        THEN Answer([op |-> "cooldown", kind |-> "Current", m |-> p.cooldown_min])
        ELSE IF ~(args[1] >= 0)
        THEN Answer(Rejected)
        ELSE Commit([p EXCEPT !.cooldown_min = args[1]],
                    [op |-> "cooldown", kind |-> "Ok", m |-> args[1]])

\* /setprob <mercado> <p>
setprob(args) ==
    LET p == Loaded
    IN  IF Len(args) # 2
        THEN Answer(Rejected)
        ELSE IF ~(0 <= args[2] /\ args[2] <= 1000)
        THEN Answer(Rejected)
        ELSE IF args[1] \notin MARKETS
        THEN Answer(Rejected)
        ELSE Commit([p EXCEPT !.probs[args[1]] = args[2]],
                    [op |-> "setprob", kind |-> "Ok", market |-> args[1], prob |-> args[2]])

\* /prob
prob ==
    Answer([op |-> "prob", kind |-> "Probs", d |-> Loaded.probs])

\* /suggest
suggest ==
    LET p == Loaded
    IN  Answer(SuggestDecision(p, clock))

\* the wagers of the session that have a result
Done(bets) == SelectSeq(bets, LAMBDA b : b.pnl # None)
Count(bets, outcome) == Len(SelectSeq(bets, LAMBDA b : b.outcome = Some(outcome)))

\* /bet <stake> <mercado>
bet(args) ==
    LET p == Loaded
    IN  IF Len(args) # 2
        THEN Answer(Rejected)
        ELSE IF ~BetValid(args[1], args[2])
        THEN Answer(Rejected)
        ELSE LET rem == BetGate(p, clock)
             IN  IF rem # None
                 THEN Answer([op |-> "bet", kind |-> "CooldownActive", rem |-> rem[1]])
                 ELSE /\ p.lifetime_bets + Len(p.bets) - Len(Done(p.bets)) < MaxBets
                      /\ Commit([p EXCEPT !.bets = Append(@, Bet(clock, args[1], args[2])),
                                          !.last_bet_ts = clock],
                                [op |-> "bet", kind |-> "Ok", stake |-> args[1], market |-> args[2]])

\* /result <win|lose|push>
result_cmd(args) ==
    LET p == Loaded
    IN  IF Len(args) = 0
        THEN Answer(Rejected)
        ELSE IF args[1] \notin {"win", "lose", "push"}
        THEN Answer(Rejected)
        ELSE IF OpenBet(p.bets) = 0
        THEN Answer([op |-> "result", kind |-> "NoOpenWager"])
        ELSE LET q == CloseWager(p, args[1])
             IN  Commit(q, [op |-> "result", kind |-> "Closed", outcome |-> args[1],
                               pnl |-> q.bets[OpenBet(p.bets)].pnl[1], bankroll |-> q.bankroll])

\* /stats; wr is the win rate in tenths of a percent
stats ==
    LET p            == Loaded
        bets_done    == Done(p.bets)
        session_bets == Len(bets_done)
        wins         == Count(bets_done, "win")
    IN  Answer([op |-> "stats", kind |-> "Stats",
                session_bets |-> session_bets,
                pnl_s   |-> SumPnl(bets_done),
                wr      |-> IF session_bets # 0 THEN RoundDiv(wins * 1000, session_bets) ELSE 0,
                wins    |-> wins,
                loses   |-> Count(bets_done, "lose"),
                pushes  |-> Count(bets_done, "push"),
                bankroll |-> p.bankroll, stop_loss |-> p.stop_loss, stop_win |-> p.stop_win,
                cooldown_min |-> p.cooldown_min,
                lifetime_bets |-> p.lifetime_bets, lifetime_pnl |-> p.lifetime_pnl])

\* /reset forgetting the time of the last wager as well
reset_cmd_ClearsCooldown ==
    LET p == Loaded
    IN  Commit([p EXCEPT !.session_start = clock, !.bets = <<>>, !.last_bet_ts = 0],
               [op |-> "reset", kind |-> "Ok"])

\* /reset
reset_cmd ==
    LET p == Loaded
    IN  Commit([p EXCEPT !.session_start = clock, !.bets = <<>>],
               [op |-> "reset", kind |-> "Ok"])

----------------------------------------------------------------------------
(* The periodic job *)

\* _cancel_jobs_for removing nothing
CancelJobs_Keep(n) == n

\* _cancel_jobs_for(chat_id, context): the jobs left of n
\* (schedule_removal of every job named auto-<chat_id>)
CancelJobs(n) == 0

\* auto_tick up to its first await: a job of the queue fires, the Profile is
\* loaded and the message chosen.  On a stop condition the tick is suspended
\* in send_message (lines 248, 251) holding the Profile it loaded.
auto_tick ==
    /\ jobs > 0
    /\ tick = None
    /\ LET p == Loaded
           d == TickDecision(p, clock)
       IN  IF d.kind \in {"StopLossHit", "StopWinHit"}
           THEN reply' = d /\ tick' = Some(p) /\ UNCHANGED <<disk, clock, jobs>>
           ELSE IF d.kind = "Silent"
           THEN UNCHANGED vars
           ELSE Answer(d)

\* auto_tick after send_message returns (lines 249, 252):
\* _cancel_jobs_for; p.auto_enabled = False; p.save(uid).
\* send_message is taken to return: a transport failure is not modelled.
auto_tick_resume ==
    /\ tick # None
    /\ jobs' = CancelJobs(jobs)
    /\ disk' = Save([tick[1] EXCEPT !.auto_enabled = FALSE])
    /\ tick' = None
    /\ UNCHANGED <<clock, reply>>

\* /auto_on scheduling a job without removing the one before
auto_on_NoCancel(args) ==
    LET p       == Loaded
        minutes == IF Len(args) # 0 THEN args[1] ELSE p.auto_interval_min
    IN  IF ~(minutes >= 1)
        THEN Answer(Rejected)
        ELSE /\ disk' = Save([p EXCEPT !.auto_enabled = TRUE, !.auto_interval_min = minutes])
             /\ jobs' = jobs + 1
             /\ reply' = [op |-> "auto_on", kind |-> "Ok", minutes |-> minutes]
             /\ UNCHANGED <<clock, tick>>

\* /auto_on [<min>]
auto_on(args) ==
    LET p       == Loaded
        minutes == IF Len(args) # 0 THEN args[1] ELSE p.auto_interval_min
    IN  IF ~(minutes >= 1)
        THEN Answer(Rejected)
        ELSE /\ disk' = Save([p EXCEPT !.auto_enabled = TRUE, !.auto_interval_min = minutes])
             /\ jobs' = CancelJobs(jobs) + 1
             /\ reply' = [op |-> "auto_on", kind |-> "Ok", minutes |-> minutes]
             /\ UNCHANGED <<clock, tick>>

\* /auto_off
auto_off ==
    /\ jobs' = CancelJobs(jobs)
    /\ disk' = Save([Loaded EXCEPT !.auto_enabled = FALSE])
    /\ reply' = [op |-> "auto_off", kind |-> "Ok"]
    /\ UNCHANGED <<clock, tick>>

\* time.time() reads t, later than before
time_passes(t) ==
    /\ t > clock
    /\ clock' = t
    /\ UNCHANGED <<disk, jobs, tick, reply>>

----------------------------------------------------------------------------
(* The inputs tried *)

BadBankrollArgs == {<<>>, <<0>>, <<-10000>>}
LimitsArgs      == {<<5000>>, <<-5000, 5000>>, <<5000, -5000>>, <<5000, 5000>>, <<0, 5000>>}
CooldownArgs    == {<<>>, <<-1>>, <<1>>}
BadProbArgs     == {<<"dragon">>, <<"dragon", 1500>>, <<"dragon", -1>>, <<"horse", 700>>}
BetArgs         == {<<5000>>, <<0, "dragon">>, <<5000, "horse">>, <<5000, "dragon">>}
ResultArgs      == {<<>>, <<"draw">>, <<"win">>, <<"lose">>, <<"push">>}
AutoOnArgs      == {<<>>, <<0>>, <<5>>}

\* The instants at which the clock is read: the start, and 59 s, 59.5 s (for
\* Sec = 2) and 60 s later, around the end of a cooldown of one minute.
Instants == {T0, T0 + 59 * Sec, T0 + 60 * Sec - 1, T0 + 60 * Sec}

----------------------------------------------------------------------------
(* The commands of a session, one after the other: every handler runs from *)
(* its load to its save without an await (the only await of a handler is   *)
(* its final reply_text).                                                  *)

Next ==
    \/ \E a \in BadBankrollArgs : setbankroll(a)
    \/ \E a \in LimitsArgs : setlimits(a)
    \/ \E a \in CooldownArgs : cooldown(a)
    \/ \E a \in BadProbArgs : setprob(a)
    \/ suggest
    \/ \E a \in BetArgs : bet(a)
    \/ \E a \in ResultArgs : result_cmd(a)
    \/ reset_cmd
    \/ \E t \in Instants : time_passes(t)

Spec == Init /\ [][Next]_vars

----------------------------------------------------------------------------
(* The periodic job, among the commands that bring a session to a stop     *)
(* limit or into a cooldown.  Updates are handled one at a time            *)
(* (concurrent_updates is off), and a job of the JobQueue runs on the same *)
(* event loop: a handler can run while auto_tick waits in send_message.    *)
(* One auto_tick is in flight at a time.                                   *)

AutoLimitsArgs      == {<<5000, 5000>>}
AutoCooldownArgs    == {<<1>>}
AutoBetArgs         == {<<5000, "dragon">>}
AutoResultArgs      == {<<"win">>, <<"lose">>}

NextAuto ==
    \/ \E a \in AutoLimitsArgs : setlimits(a)
    \/ \E a \in AutoCooldownArgs : cooldown(a)
    \/ \E a \in AutoBetArgs : bet(a)
    \/ \E a \in AutoResultArgs : result_cmd(a)
    \/ reset_cmd
    \/ suggest
    \/ \E a \in AutoOnArgs : auto_on(a)
    \/ auto_off
    \/ auto_tick
    \/ auto_tick_resume

SpecAuto == Init /\ [][NextAuto]_vars

----------------------------------------------------------------------------
(* The advisor: the probabilities and the bankroll are declared, wagers    *)
(* are lost and won (the bankroll goes below zero), and the suggestion,    *)
(* the probabilities and the statistics are read.  No limit and no         *)
(* cooldown is set, so that /suggest always reaches advisor_suggestion.    *)

\* 4.25 and 100.00
BankrollArgs      == {<<425>>, <<10000>>}
ProbArgs          == {<<"dragon", 400>>, <<"dragon", 700>>, <<"dragon", 750>>,
                      <<"tiger", 400>>, <<"tiger", 700>>, <<"tiger", 1000>>,
                      <<"tie", 900>>}
AdvisorBetArgs    == {<<5000, "tiger">>}
AdvisorResultArgs == {<<"win">>, <<"lose">>}

NextAdvisor ==
    \/ start
    \/ \E a \in BankrollArgs : setbankroll(a)
    \/ \E a \in ProbArgs : setprob(a)
    \/ prob
    \/ suggest
    \/ \E a \in AdvisorBetArgs : bet(a)
    \/ \E a \in AdvisorResultArgs : result_cmd(a)
    \/ stats

SpecAdvisor == Init /\ [][NextAdvisor]_vars

----------------------------------------------------------------------------
(* The notions the properties are stated in *)

\* the Profile after the step
Loaded1 == Load(disk', clock')

\* a cooldown is still running at time t: less than cooldown_min minutes
\* since the last wager
CooldownRunning(p, t) ==
    p.cooldown_min > 0 /\ t < p.last_bet_ts + p.cooldown_min * 60 * Sec

StopLossReached(p) == p.stop_loss > 0 /\ session_pnl(p) <= -p.stop_loss
StopWinReached(p)  == p.stop_win > 0 /\ session_pnl(p) >= p.stop_win

OUTCOMES == {"win", "lose", "push"}

\* the arguments place_wager accepts: stake > 0 and a known market
GoodBetArgs == {a \in BetArgs : Len(a) = 2 /\ a[1] > 0 /\ a[2] \in MARKETS}

\* wager i is the most recently appended one without an outcome
IsLastOpen(bets, i) ==
    /\ i \in 1..Len(bets)
    /\ bets[i].outcome = None
    /\ \A j \in (i + 1)..Len(bets) : bets[j].outcome # None

NoOpenWager(bets) == \A i \in 1..Len(bets) : bets[i].outcome # None

----------------------------------------------------------------------------
(* C1: a record_result that succeeds closes the most recently appended     *)
(* wager without an outcome, gives it +stake for win, -stake for lose and  *)
(* 0 for push, adds that amount to bankroll and to lifetime_pnl and 1 to   *)
(* lifetime_bets, and changes no other wager and nothing else.             *)
C1_RecordResult ==
    [][\A o \in OUTCOMES :
         (result_cmd(<<o>>) /\ reply'.kind = "Closed") =>
            \E i \in 1..Len(Loaded.bets) :
               LET stake == Loaded.bets[i].stake
                   pnl   == CASE o = "win" -> stake [] o = "lose" -> -stake [] OTHER -> 0
               IN  /\ IsLastOpen(Loaded.bets, i)
                   /\ Loaded1 = [Loaded EXCEPT !.bets[i].outcome = Some(o),
                                               !.bets[i].pnl = Some(pnl),
                                               !.bankroll = @ + pnl,
                                               !.lifetime_pnl = @ + pnl,
                                               !.lifetime_bets = @ + 1]
                   /\ reply'.pnl = pnl
                   /\ reply'.bankroll = Loaded.bankroll + pnl]_vars

\* C1's case: a win was recorded on the later of two open wagers
C1_Witness ==
    /\ reply.op = "result" /\ reply.kind = "Closed" /\ reply.outcome = "win"
    /\ Len(Loaded.bets) = 2
    /\ Loaded.bets[1].outcome = None
    /\ Loaded.bets[2].outcome = Some("win")
    /\ Loaded.bets[2].pnl = Some(Loaded.bets[2].stake)
    /\ Loaded.lifetime_bets = 1

(* C3, as stated: when a cooldown is running and a stop limit is reached,  *)
(* request_suggestion reports CooldownActive.                              *)
C3_CooldownFirst ==
    [][(suggest /\ CooldownRunning(Loaded, clock)
                /\ (StopLossReached(Loaded) \/ StopWinReached(Loaded)))
          => reply'.kind = "CooldownActive"]_vars

(* C3, amended: request_suggestion evaluates the stop limits before the    *)
(* cooldown: when a cooldown is running and a stop limit is reached, it    *)
(* reports StopLossHit or StopWinHit, not CooldownActive.                  *)
C3_LimitsFirst ==
    [][(suggest /\ CooldownRunning(Loaded, clock)
                /\ (StopLossReached(Loaded) \/ StopWinReached(Loaded)))
          => reply'.kind = (IF StopLossReached(Loaded) THEN "StopLossHit" ELSE "StopWinHit")]_vars

\* C3's case: /suggest answered with the stop-loss while the cooldown runs
C3_Witness ==
    /\ reply.op = "suggest" /\ reply.kind = "StopLossHit"
    /\ CooldownRunning(Loaded, clock)
    /\ ensure_cooldown(Loaded, clock) # None
    /\ StopLossReached(Loaded)

\* request_suggestion and place_wager (valid stake and market) are blocked
SuggestBlocked == SuggestDecision(Loaded, clock).kind # "Suggestion"
BetBlocked     == BetGate(Loaded, clock) # None

(* C4, as stated: for every Profile and clock value, request_suggestion is *)
(* blocked if and only if place_wager with a valid stake and market is.    *)
C4_SameGate == SuggestBlocked <=> BetBlocked

(* C4, amended: request_suggestion is blocked if and only if place_wager   *)
(* with a valid stake and market is blocked or a stop limit is reached.    *)
C4_GateButLimits ==
    SuggestBlocked <=> (BetBlocked \/ StopLossReached(Loaded) \/ StopWinReached(Loaded))

\* C4's case: /suggest was blocked by the cooldown that also blocks /bet
C4_Witness ==
    /\ reply.op = "suggest" /\ reply.kind = "CooldownActive"
    /\ BetBlocked
    /\ ~StopLossReached(Loaded) /\ ~StopWinReached(Loaded)

(* C5: place_wager with stake > 0 and a known market answers Ok or         *)
(* CooldownActive only, and is accepted (the wager appended,               *)
(* last_bet_ts = now) whenever no cooldown is running, also when the       *)
(* session PnL has reached the stop-loss or the stop-win.                  *)
C5_LimitsDoNotBlockBet ==
    [][\A a \in GoodBetArgs :
         bet(a) =>
            /\ reply'.kind \in {"Ok", "CooldownActive"}
            /\ ~CooldownRunning(Loaded, clock) =>
                  /\ reply'.kind = "Ok"
                  /\ Loaded1 = [Loaded EXCEPT !.bets = Append(@, Bet(clock, a[1], a[2])),
                                              !.last_bet_ts = clock]]_vars

\* C5's case: a wager was accepted with the stop-loss reached
C5_Witness ==
    /\ reply.op = "bet" /\ reply.kind = "Ok"
    /\ StopLossReached(Loaded)
    /\ Loaded.bets[Len(Loaded.bets)].outcome = None
    /\ Loaded.last_bet_ts = clock

(* C6: a record_result that directly follows a record_result fails with    *)
(* NoOpenWager and changes nothing.                                        *)
C6_SecondResultFails ==
    [][\A o \in OUTCOMES :
         (reply.op = "result" /\ result_cmd(<<o>>))
            => (reply'.kind = "NoOpenWager" /\ disk' = disk)]_vars

\* the steps C7 is about: an operation that is rejected
C7_Rejected ==
    \/ \E a \in BadBankrollArgs : Len(a) = 1 /\ a[1] <= 0 /\ setbankroll(a)
    \/ \E a \in LimitsArgs : Len(a) = 2 /\ (a[1] < 0 \/ a[2] < 0) /\ setlimits(a)
    \/ \E a \in CooldownArgs : Len(a) = 1 /\ a[1] < 0 /\ cooldown(a)
    \/ \E a \in BadProbArgs :
          Len(a) = 2 /\ (a[2] < 0 \/ a[2] > 1000 \/ a[1] \notin MARKETS) /\ setprob(a)
    \/ \E a \in BetArgs : Len(a) = 2 /\ (a[1] <= 0 \/ a[2] \notin MARKETS) /\ bet(a)
    \/ \E a \in GoodBetArgs : bet(a) /\ reply'.kind = "CooldownActive"
    \/ \E a \in ResultArgs : Len(a) = 1 /\ a[1] \notin OUTCOMES /\ result_cmd(a)
    \/ \E a \in ResultArgs : Len(a) = 1 /\ NoOpenWager(Loaded.bets) /\ result_cmd(a)

(* C7: a rejected operation (set_bankroll <= 0, set_limits with a negative *)
(* limit, set_cooldown < 0, set_probability outside [0,1] or of an unknown *)
(* market, place_wager with stake <= 0, an unknown market or during the    *)
(* cooldown, record_result with an unknown outcome or no open wager)       *)
(* leaves the saved Profile, and last_bet_ts in it, as they were.          *)
C7_RejectedChangesNothing ==
    [][C7_Rejected =>
          /\ disk' = disk
          /\ reply'.kind \in {"ValidationError", "CooldownActive", "NoOpenWager"}
          /\ UNCHANGED <<clock, jobs, tick>>]_vars

\* C7's case: a wager refused during the cooldown, one second before its
\* end; last_bet_ts is still the time of the wager before
C7_Witness ==
    /\ reply.op = "bet" /\ reply.kind = "CooldownActive" /\ reply.rem = 1
    /\ Loaded.last_bet_ts = T0
    /\ clock = T0 + 59 * Sec
    /\ Len(Loaded.bets) = 1

(* C8: a place_wager that follows an accepted place_wager (at time t, the  *)
(* cooldown of m minutes unchanged) is blocked before t + 60*m, with       *)
(* 0 < remaining <= t + 60*m - now, and accepted from t + 60*m on and      *)
(* whenever m = 0.                                                         *)
C8_CooldownWindow ==
    [][\A a \in GoodBetArgs :
         (reply.op = "bet" /\ reply.kind = "Ok" /\ bet(a)) =>
            LET due == Loaded.last_bet_ts + 60 * Loaded.cooldown_min * Sec
            IN  IF Loaded.cooldown_min > 0 /\ clock < due
                THEN /\ reply'.kind = "CooldownActive"
                     /\ reply'.rem > 0
                     /\ reply'.rem * Sec <= due - clock
                ELSE reply'.kind = "Ok"]_vars

(* C9: with no cooldown running, request_suggestion reports StopLossHit    *)
(* exactly when stop_loss > 0 and session_pnl <= -stop_loss, otherwise     *)
(* StopWinHit exactly when stop_win > 0 and session_pnl >= stop_win,       *)
(* otherwise the advisor's answer.                                         *)
C9_LimitCheck ==
    [][(suggest /\ ~CooldownRunning(Loaded, clock)) =>
          reply'.kind = (IF Loaded.stop_loss > 0 /\ session_pnl(Loaded) <= -Loaded.stop_loss
                         THEN "StopLossHit"
                         ELSE IF Loaded.stop_win > 0 /\ session_pnl(Loaded) >= Loaded.stop_win
                         THEN "StopWinHit"
                         ELSE "Suggestion")]_vars

\* C9's case: stop_loss = stop_win = 50.00 and session_pnl = -50.00
C9_Witness ==
    /\ reply.op = "suggest" /\ reply.kind = "StopLossHit"
    /\ Loaded.stop_loss = 5000 /\ Loaded.stop_win = 5000
    /\ session_pnl(Loaded) = -5000
    /\ ~CooldownRunning(Loaded, clock)

----------------------------------------------------------------------------
(* Properties of the periodic job, under SpecAuto *)

(* C2: the save of an operation overwrites nothing saved since its load:   *)
(* what auto_tick saves is the Profile on disk with auto_enabled = False.  *)
C2_NoLostUpdate ==
    [][auto_tick_resume => Loaded1 = [Loaded EXCEPT !.auto_enabled = FALSE]]_vars

----------------------------------------------------------------------------
(* Frame and ledger properties over every operation, the periodic tick     *)
(* included, under SpecAuto                                                *)

\* the step is a record_result that succeeds, with profit/loss pnl
ResultCloses(pnl) ==
    \E o \in OUTCOMES :
       /\ result_cmd(<<o>>)
       /\ reply'.kind = "Closed"
       /\ reply'.pnl = pnl

(* C11: the bankroll changes only in a record_result that succeeds, by the *)
(* profit/loss of the wager it closes, or in a set_bankroll that succeeds; *)
(* place_wager, reset_session, set_limits, set_cooldown, request_suggestion,*)
(* auto_on, auto_off and the periodic tick leave the bankroll as it was.   *)
C11_BankrollFrame ==
    [][Loaded1.bankroll # Loaded.bankroll =>
          \/ ResultCloses(Loaded1.bankroll - Loaded.bankroll)
          \/ \E a \in BankrollArgs : setbankroll(a) /\ reply'.kind = "Ok"]_vars

\* wager i of the list before is still wager i of the list after, with its
\* stake, market and timestamp, and with its outcome and profit/loss once
\* they are recorded
WagerKept(before, after, i) ==
    /\ i <= Len(after)
    /\ after[i].ts = before[i].ts
    /\ after[i].stake = before[i].stake
    /\ after[i].market = before[i].market
    /\ before[i].outcome # None => after[i] = before[i]

(* C12: between resets the session list is append-only: a step other than  *)
(* reset_session removes and reorders no wager, changes no stake, market or*)
(* timestamp, and changes neither the outcome nor the profit/loss of a     *)
(* wager whose outcome is recorded.                                        *)
C12_AppendOnly ==
    [][~reset_cmd =>
          \A i \in 1..Len(Loaded.bets) : WagerKept(Loaded.bets, Loaded1.bets, i)]_vars

----------------------------------------------------------------------------
(* Properties of reset_session *)

\* the fields of a Profile that reset_session leaves alone
KeptByReset ==
    {"bankroll", "lifetime_bets", "lifetime_pnl", "stop_loss", "stop_win",
     "cooldown_min", "last_bet_ts", "probs", "auto_enabled", "auto_interval_min"}

(* C13: reset_session empties the session list, open wagers included, and  *)
(* sets session_start to now; bankroll, lifetime_bets, lifetime_pnl, the   *)
(* stop limits, cooldown_min, last_bet_ts and the probabilities stay as    *)
(* they were, so a cooldown running before the reset runs on after it.     *)
C13_ResetFrame ==
    [][reset_cmd =>
          /\ Loaded1.bets = <<>>
          /\ Loaded1.session_start = clock
          /\ \A f \in KeptByReset : Loaded1[f] = Loaded[f]
          /\ UNCHANGED <<clock, jobs, tick>>
          /\ CooldownRunning(Loaded, clock) => CooldownRunning(Loaded1, clock')
          /\ ensure_cooldown(Loaded1, clock') = ensure_cooldown(Loaded, clock)]_vars

\* C13's case: a reset one second before the end of the cooldown dropped the
\* wager placed at T0, which never had a result; the cooldown still runs
C13_Witness ==
    /\ reply.op = "reset"
    /\ Loaded.bets = <<>>
    /\ Loaded.lifetime_bets = 0
    /\ Loaded.last_bet_ts = T0
    /\ Loaded.session_start = T0 + 59 * Sec
    /\ clock = T0 + 59 * Sec
    /\ CooldownRunning(Loaded, clock)
    /\ ensure_cooldown(Loaded, clock) = Some(1)

----------------------------------------------------------------------------
(* Properties of the advisor, under SpecAdvisor *)

\* /suggest has just answered with the advisor's text
Advised == reply.op = "suggest" /\ reply.kind = "Suggestion"

NoEdge == [kind |-> "NoEdge"]

(* C14: whenever the declared probabilities of dragon and of tiger are     *)
(* both <= 0.5 the advisor returns NoEdge, with no market and no stake,    *)
(* for every bankroll (positive, zero or negative) and every probability   *)
(* of tie.                                                                 *)
C14_NoEdge ==
    (Loaded.probs["dragon"] <= 500 /\ Loaded.probs["tiger"] <= 500) =>
        /\ advisor_suggestion(Loaded) = NoEdge
        /\ Advised => reply.text = NoEdge

\* C14's case: NoEdge answered with dragon at 0.4, tiger at 0.5, tie at 0.9
\* and a bankroll below zero
C14_Witness ==
    /\ Advised
    /\ reply.text = NoEdge
    /\ Loaded.probs["dragon"] = 400
    /\ Loaded.probs["tiger"] = 500
    /\ Loaded.probs["tie"] = 900
    /\ Loaded.bankroll < 0

\* n / 1000 rounded to the nearest integer, halves away from zero: the
\* monetary rounding of the specification, in cents
RoundHalfAway(n) ==
    IF n >= 0 THEN (n + 500) \div 1000 ELSE -((500 - n) \div 1000)

\* the probability the advisor uses: the greater of dragon's and tiger's
ChosenProb(p) == Max(p.probs["dragon"], p.probs["tiger"])

(* C15: for every chosen probability p > 0.5 the recommended stake is      *)
(* max(1.0, round(bankroll * (2p - 1), 2)), 2p - 1 clamped to [0, 1] and   *)
(* the rounding to two decimals being half away from zero; it is >= 1.0    *)
(* when bankroll > 0.                                                      *)
C15_Stake ==
    (Advised /\ ChosenProb(Loaded) > 500) =>
        LET f == Max(0, Min(1000, 2 * ChosenProb(Loaded) - 1000))
        IN  /\ reply.text.kind = "Stake"
            /\ reply.text.stake = Max(100, RoundHalfAway(Loaded.bankroll * f))
            /\ Loaded.bankroll > 0 => reply.text.stake >= 100

(* C16: the market of a Stake suggestion is the one of dragon and tiger    *)
(* with the higher declared probability, dragon when the two are equal;    *)
(* tie is never suggested, whatever its probability.                       *)
C16_Market ==
    (Advised /\ reply.text.kind = "Stake") =>
        LET d == Loaded.probs["dragon"]
            t == Loaded.probs["tiger"]
        IN  /\ reply.text.market \in {"dragon", "tiger"}
            /\ d > t => reply.text.market = "dragon"
            /\ t > d => reply.text.market = "tiger"
            /\ d = t => reply.text.market = "dragon"
            /\ reply.text.prob = Loaded.probs[reply.text.market]

\* C16's case: dragon and tiger both at 0.7, tie at 0.9: dragon is suggested
C16_Witness ==
    /\ Advised
    /\ reply.text.kind = "Stake"
    /\ reply.text.market = "dragon"
    /\ Loaded.probs["dragon"] = 700
    /\ Loaded.probs["tiger"] = 700
    /\ Loaded.probs["tie"] = 900

----------------------------------------------------------------------------
(* Properties of the session and of the job, under SpecAuto *)

StopKinds == {"StopLossHit", "StopWinHit"}

(* C17: right after reset_session the session PnL is 0, so with any        *)
(* stop_loss > 0 and stop_win > 0, and whatever the session PnL was before,*)
(* neither request_suggestion nor the periodic tick is blocked by          *)
(* StopLossHit or StopWinHit.                                              *)
C17_ResetUnblocks ==
    [][reset_cmd =>
          /\ session_pnl(Loaded1) = 0
          /\ ~StopLossReached(Loaded1) /\ ~StopWinReached(Loaded1)
          /\ SuggestDecision(Loaded1, clock').kind \notin StopKinds
          /\ TickDecision(Loaded1, clock').kind \notin StopKinds]_vars

\* C17's case: a tick in flight found the stop-loss reached, no result was
\* recorded since, and the session was reset: /suggest is no longer blocked
\* by a limit
C17_Witness ==
    /\ reply.op = "reset"
    /\ Loaded.bets = <<>>
    /\ Loaded.stop_loss > 0 /\ Loaded.stop_win > 0
    /\ tick # None
    /\ StopLossReached(tick[1])
    /\ tick[1].stop_loss = Loaded.stop_loss
    /\ tick[1].lifetime_bets = Loaded.lifetime_bets
    /\ SuggestDecision(Loaded, clock).kind \notin StopKinds

\* the decisions of the tick and of request_suggestion on Profile p at time t
\* agree on the suggestion and on the two stop reports
SameDecision(p, t) ==
    LET k == TickDecision(p, t)
        s == SuggestDecision(p, t)
    IN  /\ k.kind = "Suggestion" <=> s.kind = "Suggestion"
        /\ k.kind = "Suggestion" => k.text = s.text
        /\ k.kind = "StopLossHit" <=> s.kind = "StopLossHit"
        /\ k.kind = "StopWinHit" <=> s.kind = "StopWinHit"

(* C18: the periodic tick and request_suggestion take the same decision on *)
(* every Profile and clock value: the tick sends the advisor's suggestion  *)
(* exactly when request_suggestion would return it, reports the stop-loss  *)
(* exactly when request_suggestion reports StopLossHit and the stop-win    *)
(* exactly when it reports StopWinHit.                                     *)
C18_TickAsSuggest ==
    /\ [](SameDecision(Loaded, clock))
    /\ [][auto_tick =>
            LET s == SuggestDecision(Loaded, clock)
            IN  /\ s.kind = "Suggestion" =>
                      reply' = [op |-> "auto_tick", kind |-> "Suggestion", text |-> s.text]
                /\ s.kind \in StopKinds =>
                      reply' = [op |-> "auto_tick", kind |-> s.kind]
                /\ s.kind = "CooldownActive" => reply' = reply]_vars

\* C18's case: the tick reported the stop-loss during a cooldown, as
\* request_suggestion does on the Profile the tick loaded
C18_Witness ==
    /\ reply = [op |-> "auto_tick", kind |-> "StopLossHit"]
    /\ tick = Some(Loaded)
    /\ ensure_cooldown(Loaded, clock) # None
    /\ SuggestDecision(Loaded, clock).kind = "StopLossHit"

\* the wagers of the session closed by the step
ClosedBy == Len(Done(Loaded1.bets)) - Len(Done(Loaded.bets))

(* C19: accounting is conserved: in a step that is not a set_bankroll the  *)
(* change in bankroll is the change in lifetime_pnl; in a step that is not *)
(* a reset_session the change in lifetime_pnl is the change in session_pnl *)
(* and the change in lifetime_bets is the number of wagers closed; open    *)
(* wagers count 0 in session_pnl.                                          *)
C19_Conservation ==
    /\ [](session_pnl(Loaded) = SumPnl(Done(Loaded.bets)))
    /\ [][/\ ~(\E a \in BankrollArgs : setbankroll(a)) =>
                Loaded1.bankroll - Loaded.bankroll
                   = Loaded1.lifetime_pnl - Loaded.lifetime_pnl
          /\ ~reset_cmd =>
                /\ Loaded1.lifetime_pnl - Loaded.lifetime_pnl
                      = session_pnl(Loaded1) - session_pnl(Loaded)
                /\ Loaded1.lifetime_bets - Loaded.lifetime_bets = ClosedBy]_vars

(* C20: after every sequence of auto_on, auto_off and ticks, whatever their*)
(* interleaving, at most one job is scheduled for the chat, and the saved  *)
(* auto_enabled is true exactly when a job is scheduled.                   *)
C20_OneJob ==
    /\ jobs <= 1
    /\ Loaded.auto_enabled <=> jobs = 1

\* C20's case: /auto_on was handled while a tick that found a stop limit
\* waits in send_message
C20_Witness ==
    /\ reply.op = "auto_on" /\ reply.kind = "Ok"
    /\ tick # None
    /\ jobs = 1
    /\ Loaded.auto_enabled
    /\ tick[1].auto_interval_min # Loaded.auto_interval_min

====
